---- MODULE Spec2Model ----
(***************************************************************************)
(* A model of ec2-reaper: the idle-window computation over CloudWatch      *)
(* datapoints (reaper.py, Instance.get_idle_period_hours_for_metric), the  *)
(* per-instance aggregation (Instance.idle_period_hours), one pass of      *)
(* reaper (validation, paginated listing, warn/stop loop) and ebs_reaper   *)
(* (volume listing and the three volume thresholds).                       *)
(*                                                                         *)
(* Units.  Timestamps and durations are held in whole seconds.  The code   *)
(* returns hours as total_seconds() / 3600; the model keeps the number of  *)
(* seconds and scales the hour-valued quantities it is compared with       *)
(* (timeouts, the -1 sentinel) by SECS_PER_HOUR instead, so that every     *)
(* comparison of the code is the same comparison on integers.              *)
(***************************************************************************)
EXTENDS Integers, Sequences, FiniteSets, TLC

\* ------------------------------------------------------------------------
\* Program constants
\* ------------------------------------------------------------------------
REPORTING_PERIOD_SECS == 300
REPORTING_LOOKBACK_TIME_HOURS == 48
SECS_PER_HOUR == 3600
DEFAULT_MIN_CPU == 3
DEFAULT_MIN_DISK == 1
DEFAULT_MIN_NETWORK == 50
MAX_AVAILABLE == 20
MAX_IN_USE_OVER_200GB == 10
MAX_EBS_SIZE == 10000
SIZE_FLOOR_GB == 200

\* "If the metric doesn't exist or returns no data points then -1 is
\* returned": -1 hour, in seconds.
NO_DATA == (-1) * SECS_PER_HOUR

\* Continuation tokens.  The first request is sent with nexttoken = '' (or,
\* in ebs_reaper, with no token at all); resp.get('NextToken') is None on
\* the last page; the token that asks for page k is k.
EmptyToken == 0
NoToken == -1

\* ------------------------------------------------------------------------
\* Bounds of the model
\* ------------------------------------------------------------------------
MaxSlots == 5
MaxRun == 2
MaxInstances == 2
MaxPages == 2
MaxVolumePages == 2
MaxListCalls == 3
MaxExtraVolumes == 1

\* ------------------------------------------------------------------------
\* State
\* ------------------------------------------------------------------------
VARIABLES
  \* get_idle_period_hours_for_metric, called on one series
  datapoints,        \* resp['Datapoints']: sequence of [Timestamp, Average]
  idle_threshold,    \* the idle_threshold argument
  m_result,          \* the value returned (seconds); "none" before the call
  m_pc,              \* "call" | "returned"
  \* Instance.idle_period_hours, evaluated metric by metric
  series,            \* CloudWatch content: metric name -> datapoints
  i_pc,              \* position inside the property evaluation
  fetched,           \* metric names handed to get_metric_statistics so far
  cpu_idle, disk_read_idle, disk_write_idle, packets_in_idle, packets_out_idle,
  disk_idle, network_idle,
  i_result,          \* value of idle_period_hours; "none" until computed
  \* one pass of main/reaper
  stop_timeout, warning_timeout, include_stopped, verbose, webhook,
  ec2_pages,         \* the EC2 account: sequence of pages of instances
  r_pc,              \* "validate" | "list" | "print" | "loop" | "done", or the exception
                     \* that ended the pass: "config_error" | "notify_error" |
                     \* "key_error" | "type_error" | "post_error"
  nexttoken,         \* EmptyToken | a continuation token | NoToken
  instances_vec,
  list_calls,        \* sequence of the NextToken arguments sent
  metric_calls,      \* instance ids whose metrics were fetched
  pos,               \* index of the next instance of the for loop
  warned, stopped, checked,
  warnings_sent,     \* instance ids whose message the webhook answered with 200
  warnings_refused,  \* instance ids whose message the webhook answered otherwise
  warn_attempts,     \* instance ids passed to warning_callback
  stops_issued,      \* instance ids passed to stop_instance_callback
  \* one call of ebs_reaper
  volume_pages,      \* the EBS account: sequence of pages of volumes
  has_slack,         \* slack_send_func is not None
  slack_fails_on,    \* the call of slack_send_func that raises (0: none does)
  slack_calls,       \* number of calls of slack_send_func made
  e_pc,              \* "list" | "available" | "in_use_over_200GB" | "total_size" |
                     \* "done" | "raised"
  e_done,
  volumes_vec,
  volume_requests,   \* the NextToken argument of each describe_volumes call
  printed,           \* warnings printed, in order
  slack_msgs         \* warnings slack_send_func was called with and returned from, in order

metricVars == <<datapoints, idle_threshold, m_result, m_pc>>
instVars == <<series, i_pc, fetched, cpu_idle, disk_read_idle, disk_write_idle,
              packets_in_idle, packets_out_idle, disk_idle, network_idle, i_result>>
reaperVars == <<stop_timeout, warning_timeout, include_stopped, verbose, webhook,
                ec2_pages, r_pc, nexttoken, instances_vec, list_calls,
                metric_calls, pos, warned, stopped, checked, warnings_sent,
                warnings_refused, warn_attempts, stops_issued>>
ebsVars == <<volume_pages, has_slack, slack_fails_on, slack_calls, e_pc, e_done,
             volumes_vec, volume_requests, printed, slack_msgs>>
vars == <<metricVars, instVars, reaperVars, ebsVars>>

\* ------------------------------------------------------------------------
\* Sequence helpers
\* ------------------------------------------------------------------------
Range(s) == {s[k] : k \in 1..Len(s)}

Max2(a, b) == IF a >= b THEN a ELSE b
Min2(a, b) == IF a <= b THEN a ELSE b
SetMax(S) == CHOOSE x \in S : \A y \in S : y <= x
SetMin(S) == CHOOSE x \in S : \A y \in S : x <= y

Reverse(s) == [k \in 1..Len(s) |-> s[Len(s) + 1 - k]]

RECURSIVE AscendingSeq(_)
AscendingSeq(S) ==
  IF S = {} THEN <<>> ELSE <<SetMin(S)>> \o AscendingSeq(S \ {SetMin(S)})

\* ------------------------------------------------------------------------
\* Instance.get_idle_period_hours_for_metric, reaper.py lines 139-167
\* ------------------------------------------------------------------------

\* lines 145-147: the timestamps of the datapoints strictly below the threshold
IsIdleSample(dp, thr) == dp.Average < thr

RECURSIVE IdleTimestamps(_, _)
IdleTimestamps(dps, thr) ==
  IF dps = <<>> THEN <<>>
  ELSE IF IsIdleSample(Head(dps), thr)
       THEN <<Head(dps).Timestamp>> \o IdleTimestamps(Tail(dps), thr)
       ELSE IdleTimestamps(Tail(dps), thr)

\* line 150: idle_periods.sort(reverse=True)
RECURSIVE InsertDescending(_, _)
InsertDescending(s, x) ==
  IF s = <<>> THEN <<x>>
  ELSE IF x >= Head(s) THEN <<x>> \o s
       ELSE <<Head(s)>> \o InsertDescending(Tail(s), x)

RECURSIVE SortReverse(_)
SortReverse(s) ==
  IF s = <<>> THEN <<>>
  ELSE InsertDescending(SortReverse(Tail(s)), Head(s))

\* line 157: cur - prev > timedelta(seconds=REPORTING_PERIOD_SECS)
IsBreak_ge(cur, prev) == cur - prev >= REPORTING_PERIOD_SECS
IsBreak(cur, prev) == cur - prev > REPORTING_PERIOD_SECS

\* lines 155-162: idle_start defaults to the oldest idle timestamp; the zip
\* over (idle_periods[:-1], idle_periods[1:]) stops at the first break.
RECURSIVE ScanForBreak(_, _)
ScanForBreak(idle_periods, k) ==
  IF k >= Len(idle_periods) THEN idle_periods[Len(idle_periods)]
  ELSE IF IsBreak(idle_periods[k], idle_periods[k + 1]) THEN idle_periods[k]
       ELSE ScanForBreak(idle_periods, k + 1)

IdleStart(idle_periods) == ScanForBreak(idle_periods, 1)

get_idle_period_hours_for_metric(dps, thr) ==
  IF Len(dps) = 0 THEN NO_DATA
  ELSE LET idle_periods == SortReverse(IdleTimestamps(dps, thr)) IN
       IF Len(idle_periods) > 0
       THEN idle_periods[1] - IdleStart(idle_periods)
       ELSE 0

\* ------------------------------------------------------------------------
\* Instance: the per-category properties and idle_period_hours,
\* reaper.py lines 72-101.  s maps a metric name to its datapoints.
\* ------------------------------------------------------------------------
MetricNames == {"CPUUtilization", "EBSReadOps", "DiskReadOps", "EBSWriteOps",
                "DiskWriteOps", "NetworkPacketsIn", "NetworkPacketsOut"}

\* lines 74, 78-79, 87-93: the idle_threshold each metric is queried with
ThresholdOf(metricname) ==
  IF metricname = "CPUUtilization" THEN DEFAULT_MIN_CPU
  ELSE IF metricname \in {"NetworkPacketsIn", "NetworkPacketsOut"} THEN DEFAULT_MIN_NETWORK
  ELSE DEFAULT_MIN_DISK

Query(s, metricname) ==
  get_idle_period_hours_for_metric(s[metricname], ThresholdOf(metricname))

\* lines 88, 92: if disk_read_idle < 0 / if disk_write_idle < 0
NeedsFallback(v) == v < 0

\* lines 81, 95: max of the two directions
CombineDirections_min(a, b) == Min2(a, b)
CombineDirections(a, b) == Max2(a, b)

\* lines 99-101: min over the three categories
CombineCategories(c, d, n) == Min2(c, Min2(d, n))

cpu_idle_period_hours(s) == Query(s, "CPUUtilization")

WithFallback(s, primary, secondary) ==
  IF NeedsFallback(Query(s, primary)) THEN Query(s, secondary) ELSE Query(s, primary)

disk_idle_period_hours(s) ==
  CombineDirections(WithFallback(s, "EBSReadOps", "DiskReadOps"),
                    WithFallback(s, "EBSWriteOps", "DiskWriteOps"))

network_idle_period_hours(s) ==
  CombineDirections(Query(s, "NetworkPacketsIn"), Query(s, "NetworkPacketsOut"))

idle_period_hours(s) ==
  CombineCategories(cpu_idle_period_hours(s), disk_idle_period_hours(s),
                    network_idle_period_hours(s))

\* ------------------------------------------------------------------------
\* Variable groups at rest (a specification drives one group and leaves the
\* others as they are)
\* ------------------------------------------------------------------------
MetricAtRest ==
  /\ datapoints = <<>> /\ idle_threshold = DEFAULT_MIN_CPU
  /\ m_result = "none" /\ m_pc = "off"

InstAtRest ==
  /\ series = <<>> /\ i_pc = "off" /\ fetched = {}
  /\ cpu_idle = "none" /\ disk_read_idle = "none" /\ disk_write_idle = "none"
  /\ packets_in_idle = "none" /\ packets_out_idle = "none"
  /\ disk_idle = "none" /\ network_idle = "none" /\ i_result = "none"

ReaperAtRest ==
  /\ stop_timeout = 6 /\ warning_timeout = 4
  /\ include_stopped = FALSE /\ verbose = FALSE /\ webhook = "unset"
  /\ ec2_pages = <<>> /\ r_pc = "off" /\ nexttoken = EmptyToken
  /\ instances_vec = <<>> /\ list_calls = <<>> /\ metric_calls = {}
  /\ pos = 1 /\ warned = 0 /\ stopped = 0 /\ checked = 0
  /\ warnings_sent = {} /\ warnings_refused = {}
  /\ warn_attempts = {} /\ stops_issued = {}

EbsAtRest ==
  /\ volume_pages = <<>> /\ has_slack = FALSE /\ slack_fails_on = 0 /\ slack_calls = 0
  /\ e_pc = "off" /\ e_done = FALSE
  /\ volumes_vec = <<>> /\ volume_requests = <<>> /\ printed = <<>> /\ slack_msgs = <<>>

\* ------------------------------------------------------------------------
\* SpecMetric: get_idle_period_hours_for_metric on an arbitrary bounded series
\* ------------------------------------------------------------------------

\* Sample instants: MaxSlots consecutive 5-minute slots, and one late slot an
\* hour after the first (minute 60 of the series 0, 5, 10, ..., 60).
LateSampleSecs == 12 * REPORTING_PERIOD_SECS
SampleTimes == {REPORTING_PERIOD_SECS * k : k \in 0..(MaxSlots - 1)} \cup {LateSampleSecs}

\* A slot holds no datapoint, one strictly below the threshold, or one exactly
\* at the threshold (which is not idle).
SlotKinds == {"missing", "below", "at"}

SeriesFrom(kinds, thr) ==
  LET present == {t \in DOMAIN kinds : kinds[t] # "missing"}
      asc == AscendingSeq(present)
  IN [k \in 1..Len(asc) |->
        [Timestamp |-> asc[k],
         Average |-> IF kinds[asc[k]] = "below" THEN thr - 1 ELSE thr]]

\* CloudWatch does not promise an order of Datapoints.
Orders == {"ascending", "descending"}
Arrange(s, order) == IF order = "ascending" THEN s ELSE Reverse(s)

InitMetric ==
  /\ idle_threshold = DEFAULT_MIN_CPU
  /\ \E kinds \in [SampleTimes -> SlotKinds], order \in Orders :
       datapoints = Arrange(SeriesFrom(kinds, DEFAULT_MIN_CPU), order)
  /\ m_result = "none"
  /\ m_pc = "call"
  /\ InstAtRest /\ ReaperAtRest /\ EbsAtRest

CallGetIdlePeriod ==
  /\ m_pc = "call"
  /\ m_result' = get_idle_period_hours_for_metric(datapoints, idle_threshold)
  /\ m_pc' = "returned"
  /\ UNCHANGED <<datapoints, idle_threshold, instVars, reaperVars, ebsVars>>

NextMetric == CallGetIdlePeriod

SpecMetric == InitMetric /\ [][NextMetric]_vars

\* The idle timestamps of a series, as a set.
IdleSet(dps, thr) == {dps[k].Timestamp : k \in {j \in 1..Len(dps) : dps[j].Average < thr}}

\* The idle timestamp just before t, for t not the oldest.
PrevIdle(I, t) == SetMax({u \in I : u < t})

\* Idle timestamps that follow a gap strictly longer than one sampling period.
AfterGap(I) == {t \in I : t # SetMin(I) /\ t - PrevIdle(I, t) > REPORTING_PERIOD_SECS}

RunStart(I) == IF AfterGap(I) = {} THEN SetMin(I) ELSE SetMax(AfterGap(I))

\* C1: on a non-empty series the returned value is (most recent idle
\* timestamp - run start), the run start being the later timestamp of the
\* first pair, most recent first, more than one period apart, or the oldest
\* idle timestamp when there is none; 0 with no idle sample; 0 with one.
C1_IdleWindow ==
  (m_pc = "returned" /\ Len(datapoints) > 0) =>
    LET I == IdleSet(datapoints, idle_threshold) IN
      /\ I = {} => m_result = 0
      /\ I # {} => m_result = SetMax(I) - RunStart(I)
      /\ Cardinality(I) = 1 => m_result = 0
      /\ I = {0, REPORTING_PERIOD_SECS, 2 * REPORTING_PERIOD_SECS, LateSampleSecs}
           => m_result = 0
      /\ (I # {} /\ \A t \in I : t = SetMin(I) \/ t - PrevIdle(I, t) = REPORTING_PERIOD_SECS)
           => m_result = SetMax(I) - SetMin(I)

\* C1 witness: idle at minutes 0, 5, 10 and 60 returned 0, and some series
\* with gaps of exactly one period returned a positive run.
C1_Witness ==
  /\ m_pc = "returned"
  /\ IdleSet(datapoints, idle_threshold) =
       {0, REPORTING_PERIOD_SECS, 2 * REPORTING_PERIOD_SECS, LateSampleSecs}
  /\ Len(datapoints) > 4
  /\ datapoints[1].Timestamp < datapoints[2].Timestamp
  /\ m_result = 0

\* The most recent datapoint of a series.
LatestSample(dps) ==
  CHOOSE dp \in Range(dps) : \A other \in Range(dps) : other.Timestamp <= dp.Timestamp

\* C2: when the most recent sample of the series is at or above the
\* threshold, the returned idle time is 0.
C2_ActiveNowMeansZero ==
  (m_pc = "returned" /\ Len(datapoints) > 0
     /\ LatestSample(datapoints).Average >= idle_threshold)
    => m_result = 0

\* ------------------------------------------------------------------------
\* SpecInstance: one evaluation of Instance.idle_period_hours, one CloudWatch
\* query per step, in the order the properties make them.
\* ------------------------------------------------------------------------

\* An unbroken run of n+1 idle datapoints, one period apart: n periods idle.
IdleRun(n, thr) ==
  [k \in 1..(n + 1) |-> [Timestamp |-> REPORTING_PERIOD_SECS * (k - 1), Average |-> thr - 1]]

\* What CloudWatch may hold for one metric: nothing (-1), or an idle run of
\* n periods.
RunChoices == (-1)..MaxRun
SeriesOfRun(n, metricname) ==
  IF n < 0 THEN <<>> ELSE IdleRun(n, ThresholdOf(metricname))

MetricContents ==
  {[m \in MetricNames |-> SeriesOfRun(shape[m], m)] : shape \in [MetricNames -> RunChoices]}

InitInstance ==
  /\ series \in MetricContents
  /\ i_pc = "cpu"
  /\ fetched = {}
  /\ cpu_idle = "none" /\ disk_read_idle = "none" /\ disk_write_idle = "none"
  /\ packets_in_idle = "none" /\ packets_out_idle = "none"
  /\ disk_idle = "none" /\ network_idle = "none" /\ i_result = "none"
  /\ MetricAtRest /\ ReaperAtRest /\ EbsAtRest

\* line 74
FetchCpu ==
  /\ i_pc = "cpu"
  /\ cpu_idle' = Query(series, "CPUUtilization")
  /\ fetched' = fetched \cup {"CPUUtilization"}
  /\ i_pc' = "ebs_read"
  /\ UNCHANGED <<series, disk_read_idle, disk_write_idle, packets_in_idle,
                 packets_out_idle, disk_idle, network_idle, i_result,
                 metricVars, reaperVars, ebsVars>>

\* lines 87-88
FetchEBSRead ==
  /\ i_pc = "ebs_read"
  /\ disk_read_idle' = Query(series, "EBSReadOps")
  /\ fetched' = fetched \cup {"EBSReadOps"}
  /\ i_pc' = IF NeedsFallback(disk_read_idle') THEN "disk_read" ELSE "ebs_write"
  /\ UNCHANGED <<series, cpu_idle, disk_write_idle, packets_in_idle,
                 packets_out_idle, disk_idle, network_idle, i_result,
                 metricVars, reaperVars, ebsVars>>

\* line 89
FetchDiskRead ==
  /\ i_pc = "disk_read"
  /\ disk_read_idle' = Query(series, "DiskReadOps")
  /\ fetched' = fetched \cup {"DiskReadOps"}
  /\ i_pc' = "ebs_write"
  /\ UNCHANGED <<series, cpu_idle, disk_write_idle, packets_in_idle,
                 packets_out_idle, disk_idle, network_idle, i_result,
                 metricVars, reaperVars, ebsVars>>

\* lines 91-92
FetchEBSWrite ==
  /\ i_pc = "ebs_write"
  /\ disk_write_idle' = Query(series, "EBSWriteOps")
  /\ fetched' = fetched \cup {"EBSWriteOps"}
  /\ i_pc' = IF NeedsFallback(disk_write_idle') THEN "disk_write" ELSE "disk_max"
  /\ UNCHANGED <<series, cpu_idle, disk_read_idle, packets_in_idle,
                 packets_out_idle, disk_idle, network_idle, i_result,
                 metricVars, reaperVars, ebsVars>>

\* line 93
FetchDiskWrite ==
  /\ i_pc = "disk_write"
  /\ disk_write_idle' = Query(series, "DiskWriteOps")
  /\ fetched' = fetched \cup {"DiskWriteOps"}
  /\ i_pc' = "disk_max"
  /\ UNCHANGED <<series, cpu_idle, disk_read_idle, packets_in_idle,
                 packets_out_idle, disk_idle, network_idle, i_result,
                 metricVars, reaperVars, ebsVars>>

\* line 95
ReturnDiskIdle ==
  /\ i_pc = "disk_max"
  /\ disk_idle' = CombineDirections(disk_read_idle, disk_write_idle)
  /\ i_pc' = "net_in"
  /\ UNCHANGED <<series, fetched, cpu_idle, disk_read_idle, disk_write_idle,
                 packets_in_idle, packets_out_idle, network_idle, i_result,
                 metricVars, reaperVars, ebsVars>>

\* line 78
FetchPacketsIn ==
  /\ i_pc = "net_in"
  /\ packets_in_idle' = Query(series, "NetworkPacketsIn")
  /\ fetched' = fetched \cup {"NetworkPacketsIn"}
  /\ i_pc' = "net_out"
  /\ UNCHANGED <<series, cpu_idle, disk_read_idle, disk_write_idle,
                 packets_out_idle, disk_idle, network_idle, i_result,
                 metricVars, reaperVars, ebsVars>>

\* line 79
FetchPacketsOut ==
  /\ i_pc = "net_out"
  /\ packets_out_idle' = Query(series, "NetworkPacketsOut")
  /\ fetched' = fetched \cup {"NetworkPacketsOut"}
  /\ i_pc' = "net_max"
  /\ UNCHANGED <<series, cpu_idle, disk_read_idle, disk_write_idle,
                 packets_in_idle, disk_idle, network_idle, i_result,
                 metricVars, reaperVars, ebsVars>>

\* line 81
ReturnNetworkIdle ==
  /\ i_pc = "net_max"
  /\ network_idle' = CombineDirections(packets_in_idle, packets_out_idle)
  /\ i_pc' = "min"
  /\ UNCHANGED <<series, fetched, cpu_idle, disk_read_idle, disk_write_idle,
                 packets_in_idle, packets_out_idle, disk_idle, i_result,
                 metricVars, reaperVars, ebsVars>>

\* lines 99-101
ReturnIdlePeriod ==
  /\ i_pc = "min"
  /\ i_result' = CombineCategories(cpu_idle, disk_idle, network_idle)
  /\ i_pc' = "done"
  /\ UNCHANGED <<series, fetched, cpu_idle, disk_read_idle, disk_write_idle,
                 packets_in_idle, packets_out_idle, disk_idle, network_idle,
                 metricVars, reaperVars, ebsVars>>

NextInstance ==
  \/ FetchCpu
  \/ FetchEBSRead
  \/ FetchDiskRead
  \/ FetchEBSWrite
  \/ FetchDiskWrite
  \/ ReturnDiskIdle
  \/ FetchPacketsIn
  \/ FetchPacketsOut
  \/ ReturnNetworkIdle
  \/ ReturnIdlePeriod

SpecInstance == InitInstance /\ [][NextInstance]_vars

\* What one metric holds, read off the CloudWatch content directly: the
\* length of its idle run, or NO_DATA for a metric without datapoints.
Held(m) ==
  IF series[m] = <<>> THEN NO_DATA
  ELSE series[m][Len(series[m])].Timestamp - series[m][1].Timestamp

Known(v) == v # NO_DATA

\* Per-operation disk idleness under the fallback policy.
ReadHeld == IF Known(Held("EBSReadOps")) THEN Held("EBSReadOps") ELSE Held("DiskReadOps")
WriteHeld == IF Known(Held("EBSWriteOps")) THEN Held("EBSWriteOps") ELSE Held("DiskWriteOps")

\* The three categories; a category is Unknown when it has no known value.
CpuHeld == Held("CPUUtilization")
DiskHeld == Max2(ReadHeld, WriteHeld)
NetworkHeld == Max2(Held("NetworkPacketsIn"), Held("NetworkPacketsOut"))
KnownCategories == {v \in {CpuHeld, DiskHeld, NetworkHeld} : Known(v)}

\* C3: Unknown categories are left out of the minimum; the result is
\* Unknown only when all three categories are Unknown.
C3_UnknownExcluded ==
  i_pc = "done" =>
    IF KnownCategories = {} THEN i_result = NO_DATA
    ELSE i_result = SetMin(KnownCategories)

\* C9: with every metric result known (after fallback), the value is
\* min(cpu, max(read, write), max(in, out)); a secondary disk metric is
\* queried only when its primary is Unknown.
AllKnown ==
  /\ Known(CpuHeld) /\ Known(ReadHeld) /\ Known(WriteHeld)
  /\ Known(Held("NetworkPacketsIn")) /\ Known(Held("NetworkPacketsOut"))

C9_MinOfMax ==
  /\ (i_pc = "done" /\ AllKnown) =>
        i_result = SetMin({CpuHeld, SetMax({ReadHeld, WriteHeld}),
                           SetMax({Held("NetworkPacketsIn"), Held("NetworkPacketsOut")})})
  /\ "DiskReadOps" \in fetched => ~Known(Held("EBSReadOps"))
  /\ "DiskWriteOps" \in fetched => ~Known(Held("EBSWriteOps"))
  /\ (i_pc \in {"ebs_write", "disk_write", "disk_max", "net_in", "net_out", "net_max", "min", "done"}
        /\ ~Known(Held("EBSReadOps"))) => "DiskReadOps" \in fetched
  /\ (i_pc \in {"disk_max", "net_in", "net_out", "net_max", "min", "done"}
        /\ ~Known(Held("EBSWriteOps"))) => "DiskWriteOps" \in fetched

\* C9 witness: a finished evaluation with every result known, the read side
\* answered by the secondary metric and the write side by the primary, and
\* the network category the smallest.
C9_Witness ==
  /\ i_pc = "done" /\ AllKnown
  /\ ~Known(Held("EBSReadOps")) /\ "DiskReadOps" \in fetched
  /\ Known(Held("EBSWriteOps")) /\ "DiskWriteOps" \notin fetched
  /\ ReadHeld < WriteHeld
  /\ Held("NetworkPacketsIn") > Held("NetworkPacketsOut")
  /\ CpuHeld >= DiskHeld /\ DiskHeld > NetworkHeld
  /\ i_result = NetworkHeld

\* ------------------------------------------------------------------------
\* Spec: one pass of main -> reaper, reaper.py lines 195-271, with
\* warning_callback = slack_warn and stop_instance_callback = stop_instance.
\* ------------------------------------------------------------------------

\* A paginated remote listing: the answer to a request carrying token tok.
\* EmptyToken (and a request without token) asks for the first page.
PageAsked(tok) == IF tok = EmptyToken \/ tok = NoToken THEN 1 ELSE tok
PageItems(pages, tok) == pages[PageAsked(tok)]
PageNextToken(pages, tok) ==
  IF PageAsked(tok) < Len(pages) THEN PageAsked(tok) + 1 ELSE NoToken

\* lines 217, 221: a timeout longer than the lookback window
TooLong_ge(timeout_hours) == timeout_hours >= REPORTING_LOOKBACK_TIME_HOURS
TooLong(timeout_hours) == timeout_hours > REPORTING_LOOKBACK_TIME_HOURS

\* line 256: inst.is_running or include_stopped
InScope(inst, incl) == inst.State = "running" \/ incl

\* line 258: inst.idle_period_hours < stop_instance_idle_timeout_hours
BelowStop(idle_secs, stop_hours) == idle_secs < stop_hours * SECS_PER_HOUR

\* line 259: inst.idle_period_hours >= warning_idle_timeout_hours
ReachesWarning(idle_secs, warning_hours) == idle_secs >= warning_hours * SECS_PER_HOUR

\* line 243: instances_vec.sort(key=lambda i: i.state), a stable sort
SortByState(vec) ==
  SelectSeq(vec, LAMBDA i : i.State = "running") \o
  SelectSeq(vec, LAMBDA i : i.State = "stopped")

\* Instances of the account.  An EBS-backed instance reports every metric but
\* DiskReadOps/DiskWriteOps; all its metrics hold the same idle run of `run`
\* periods, or no datapoint at all (run = -1).
PeriodsPerHour == SECS_PER_HOUR \div REPORTING_PERIOD_SECS
ProfileSeries(run) ==
  [m \in MetricNames |->
     IF run < 0 \/ m \in {"DiskReadOps", "DiskWriteOps"} THEN <<>>
     ELSE IdleRun(run, ThresholdOf(m))]

\* No data, a single idle sample, and idle runs of exactly one and two hours
\* (the warning and stop timeouts of the ordinary configuration).
InstanceKinds == {-1, 0, PeriodsPerHour, 2 * PeriodsPerHour}

\* What describe_instances returns for an instance: its state, and its tags:
\* a Tags list with a Name tag ("named"), a Tags list without one
\* ("unnamed"), or no Tags key at all ("notags").
InstanceShapes ==
  {[Kind |-> k, State |-> "running", Tags |-> "named"] : k \in InstanceKinds}
  \cup {[Kind |-> k, State |-> "running", Tags |-> "unnamed"] :
          k \in {0, PeriodsPerHour, 2 * PeriodsPerHour}}
  \cup {[Kind |-> k, State |-> "running", Tags |-> "notags"] :
          k \in {PeriodsPerHour, 2 * PeriodsPerHour}}
  \cup {[Kind |-> k, State |-> "stopped", Tags |-> "named"] :
          k \in {0, 2 * PeriodsPerHour}}
  \cup {[Kind |-> 2 * PeriodsPerHour, State |-> "stopped", Tags |-> "unnamed"]}

MakeInstance(id, shape) ==
  [InstanceId |-> id, State |-> shape.State, Kind |-> shape.Kind, Tags |-> shape.Tags]

\* What CloudWatch holds for an instance is a function of its kind.
CloudWatch(inst) == ProfileSeries(inst.Kind)

\* idle_period_hours of every kind of instance (the property is a function of
\* what CloudWatch holds and is evaluated afresh at each use).
IdleHoursOfKind == [k \in InstanceKinds |-> idle_period_hours(ProfileSeries(k))]
IdleHours(inst) == IdleHoursOfKind[inst.Kind]

\* lines 57-62, Instance.name: self['Tags'] raises KeyError without a Tags
\* key; the loop returns None when no tag has Key 'Name'.
NameRaises(inst) == inst.Tags = "notags"
NameIsNone(inst) == inst.Tags = "unnamed"

\* lines 169-170, Instance.__str__: f'{self.name:64s} ...' raises KeyError
\* through name, and TypeError when name is None.
StrRaises(inst) ==
  IF NameRaises(inst) THEN "key_error"
  ELSE IF NameIsNone(inst) THEN "type_error"
  ELSE "none"

\* lines 244-245: the first instance, in printing order, whose __str__ raises
RECURSIVE FirstStrError(_)
FirstStrError(vec) ==
  IF vec = <<>> THEN "none"
  ELSE IF StrRaises(Head(vec)) # "none" THEN StrRaises(Head(vec))
       ELSE FirstStrError(Tail(vec))

\* Ways to serve items over 1..maxPages pages, in order: one page; or n pages
\* with the items spread evenly, all on the first page, or all on the last.
RECURSIVE Flatten(_)
Flatten(pages) == IF pages = <<>> THEN <<>> ELSE Head(pages) \o Flatten(Tail(pages))

SubSeqOrEmpty(items, a, b) == IF a > b THEN <<>> ELSE SubSeq(items, a, b)

ChunkSize(items, n) == (Len(items) + n - 1) \div n
Spread(items, n) ==
  [k \in 1..n |->
     SubSeqOrEmpty(items, (k - 1) * ChunkSize(items, n) + 1,
                   Min2(k * ChunkSize(items, n), Len(items)))]
AllOnPage(items, n, j) == [k \in 1..n |-> IF k = j THEN items ELSE <<>>]

Paginations(items, maxPages) ==
  {<<items>>} \cup
  UNION {{Spread(items, n), AllOnPage(items, n, 1), AllOnPage(items, n, n)} :
         n \in 2..maxPages}

Accounts ==
  UNION {{[i \in 1..n |-> MakeInstance(i, shapes[i])] :
            shapes \in [1..n -> InstanceShapes]} :
         n \in 0..MaxInstances}

\* Timeouts (click type=int), as <<stop, warning>>: ordinary, negative, and
\* both sides of the lookback window.
TimeoutPairs ==
  {<<2, 1>>, <<-1, -2>>,
   <<REPORTING_LOOKBACK_TIME_HOURS, REPORTING_LOOKBACK_TIME_HOURS>>,
   <<REPORTING_LOOKBACK_TIME_HOURS + 1, 1>>,
   <<2, REPORTING_LOOKBACK_TIME_HOURS + 1>>}

\* The Slack side: SLACK_WEB_HOOK unset; a webhook answering 200; one
\* answering another status; one that requests.post cannot reach.
WebhookChoices == {"unset", "ok", "refuses", "unreachable"}

InitReaper ==
  /\ \E pair \in TimeoutPairs : stop_timeout = pair[1] /\ warning_timeout = pair[2]
  /\ include_stopped \in BOOLEAN
  /\ verbose \in BOOLEAN
  /\ webhook \in WebhookChoices
  /\ \E account \in Accounts : ec2_pages \in Paginations(account, MaxPages)
  /\ r_pc = "validate"
  /\ nexttoken = EmptyToken
  /\ instances_vec = <<>> /\ list_calls = <<>> /\ metric_calls = {}
  /\ pos = 1 /\ warned = 0 /\ stopped = 0 /\ checked = 0
  /\ warnings_sent = {} /\ warnings_refused = {}
  /\ warn_attempts = {} /\ stops_issued = {}
  /\ MetricAtRest /\ InstAtRest /\ EbsAtRest

configVars == <<stop_timeout, warning_timeout, include_stopped, verbose, webhook, ec2_pages>>
listVars == <<nexttoken, instances_vec, list_calls>>
loopVars == <<metric_calls, pos, warned, stopped, checked, warnings_sent,
              warnings_refused, warn_attempts, stops_issued>>
otherVars == <<metricVars, instVars, ebsVars>>

\* lines 217-223: raise before boto3.client('ec2') is even created
RejectTimeouts ==
  /\ r_pc = "validate"
  /\ TooLong(stop_timeout) \/ TooLong(warning_timeout)
  /\ r_pc' = "config_error"
  /\ UNCHANGED <<configVars, listVars, loopVars, otherVars>>

\* lines 217-228
AcceptTimeouts ==
  /\ r_pc = "validate"
  /\ ~(TooLong(stop_timeout) \/ TooLong(warning_timeout))
  /\ r_pc' = "list"
  /\ UNCHANGED <<configVars, listVars, loopVars, otherVars>>

\* lines 229-238: one iteration of the listing loop
DescribeInstances ==
  /\ r_pc = "list"
  /\ list_calls' = Append(list_calls, nexttoken)
  /\ instances_vec' = instances_vec \o PageItems(ec2_pages, nexttoken)
  /\ nexttoken' = PageNextToken(ec2_pages, nexttoken)
  /\ r_pc' = IF nexttoken' = NoToken THEN "print" ELSE "list"
  /\ UNCHANGED <<configVars, loopVars, otherVars>>

\* lines 240-254 without verbose: nothing is sorted or printed
SkipPrinting ==
  /\ r_pc = "print" /\ ~verbose
  /\ r_pc' = "loop"
  /\ UNCHANGED <<configVars, listVars, loopVars, otherVars>>

\* lines 240-254 with verbose: the instances are sorted by state and each is
\* printed through __str__
PrintInstances ==
  /\ r_pc = "print" /\ verbose
  /\ FirstStrError(SortByState(instances_vec)) = "none"
  /\ instances_vec' = SortByState(instances_vec)
  /\ r_pc' = "loop"
  /\ UNCHANGED <<configVars, nexttoken, list_calls, loopVars, otherVars>>

\* lines 240-245 with verbose: print(inst) raises at the first instance that
\* has no Name tag (TypeError) or no Tags (KeyError)
PrintInstancesRaises ==
  /\ r_pc = "print" /\ verbose
  /\ FirstStrError(SortByState(instances_vec)) # "none"
  /\ instances_vec' = SortByState(instances_vec)
  /\ r_pc' = FirstStrError(SortByState(instances_vec))
  /\ UNCHANGED <<configVars, nexttoken, list_calls, loopVars, otherVars>>

Current == instances_vec[pos]
CurrentIdle == IdleHours(Current)

\* line 256 false: the instance is passed over
SkipInstance ==
  /\ r_pc = "loop" /\ pos <= Len(instances_vec)
  /\ ~InScope(Current, include_stopped)
  /\ pos' = pos + 1
  /\ UNCHANGED <<configVars, listVars, r_pc, metric_calls, warned, stopped, checked,
                 warnings_sent, warnings_refused, warn_attempts, stops_issued, otherVars>>

\* lines 257-259 (and 266-269 with verbose, where every instance has a name):
\* below the stop timeout and below the warning timeout
LeaveInstance ==
  /\ r_pc = "loop" /\ pos <= Len(instances_vec)
  /\ InScope(Current, include_stopped)
  /\ BelowStop(CurrentIdle, stop_timeout)
  /\ ~ReachesWarning(CurrentIdle, warning_timeout)
  /\ checked' = checked + 1
  /\ metric_calls' = metric_calls \cup {Current.InstanceId}
  /\ pos' = pos + 1
  /\ UNCHANGED <<configVars, listVars, r_pc, warned, stopped, warnings_sent,
                 warnings_refused, warn_attempts, stops_issued, otherVars>>

\* lines 257-260: the instance is in the warning range and warning_callback
\* is called on it
WarningDue ==
  /\ r_pc = "loop" /\ pos <= Len(instances_vec)
  /\ InScope(Current, include_stopped)
  /\ BelowStop(CurrentIdle, stop_timeout)
  /\ ReachesWarning(CurrentIdle, warning_timeout)

\* slack_warn line 41 raising KeyError: inst.name on an instance without Tags
WarnNameRaises ==
  /\ WarningDue
  /\ NameRaises(Current)
  /\ checked' = checked + 1
  /\ metric_calls' = metric_calls \cup {Current.InstanceId}
  /\ warn_attempts' = warn_attempts \cup {Current.InstanceId}
  /\ r_pc' = "key_error"
  /\ UNCHANGED <<configVars, listVars, pos, warned, stopped, warnings_sent,
                 warnings_refused, stops_issued, otherVars>>

\* slack_send raising at line 28: SLACK_WEB_HOOK is unset
WarnFails ==
  /\ WarningDue
  /\ ~NameRaises(Current)
  /\ webhook = "unset"
  /\ checked' = checked + 1
  /\ metric_calls' = metric_calls \cup {Current.InstanceId}
  /\ warn_attempts' = warn_attempts \cup {Current.InstanceId}
  /\ r_pc' = "notify_error"
  /\ UNCHANGED <<configVars, listVars, pos, warned, stopped, warnings_sent,
                 warnings_refused, stops_issued, otherVars>>

\* slack_send line 36: requests.post raises, the webhook cannot be reached
WarnPostRaises ==
  /\ WarningDue
  /\ ~NameRaises(Current)
  /\ webhook = "unreachable"
  /\ checked' = checked + 1
  /\ metric_calls' = metric_calls \cup {Current.InstanceId}
  /\ warn_attempts' = warn_attempts \cup {Current.InstanceId}
  /\ r_pc' = "post_error"
  /\ UNCHANGED <<configVars, listVars, pos, warned, stopped, warnings_sent,
                 warnings_refused, stops_issued, otherVars>>

\* lines 257-261 with slack_send (23-36) posting the message, answered 200
WarnInstance ==
  /\ WarningDue
  /\ ~NameRaises(Current)
  /\ webhook = "ok"
  /\ checked' = checked + 1
  /\ metric_calls' = metric_calls \cup {Current.InstanceId}
  /\ warn_attempts' = warn_attempts \cup {Current.InstanceId}
  /\ warnings_sent' = warnings_sent \cup {Current.InstanceId}
  /\ warned' = warned + 1
  /\ pos' = pos + 1
  /\ UNCHANGED <<configVars, listVars, r_pc, stopped, warnings_refused,
                 stops_issued, otherVars>>

\* lines 257-261 with slack_send lines 37-38: the answer is not 200; it is
\* printed and the warning is counted all the same
WarnRefused ==
  /\ WarningDue
  /\ ~NameRaises(Current)
  /\ webhook = "refuses"
  /\ checked' = checked + 1
  /\ metric_calls' = metric_calls \cup {Current.InstanceId}
  /\ warn_attempts' = warn_attempts \cup {Current.InstanceId}
  /\ warnings_refused' = warnings_refused \cup {Current.InstanceId}
  /\ warned' = warned + 1
  /\ pos' = pos + 1
  /\ UNCHANGED <<configVars, listVars, r_pc, stopped, warnings_sent,
                 stops_issued, otherVars>>

\* lines 257-258, 262-264: stop_instance (45-46) prints the instance
StopInstance ==
  /\ r_pc = "loop" /\ pos <= Len(instances_vec)
  /\ InScope(Current, include_stopped)
  /\ ~BelowStop(CurrentIdle, stop_timeout)
  /\ StrRaises(Current) = "none"
  /\ checked' = checked + 1
  /\ metric_calls' = metric_calls \cup {Current.InstanceId}
  /\ stops_issued' = stops_issued \cup {Current.InstanceId}
  /\ stopped' = stopped + 1
  /\ pos' = pos + 1
  /\ UNCHANGED <<configVars, listVars, r_pc, warned, warnings_sent,
                 warnings_refused, warn_attempts, otherVars>>

\* lines 257-258, 262-263: stop_instance raises at line 46, formatting an
\* instance without a Name tag (TypeError) or without Tags (KeyError)
StopInstanceRaises ==
  /\ r_pc = "loop" /\ pos <= Len(instances_vec)
  /\ InScope(Current, include_stopped)
  /\ ~BelowStop(CurrentIdle, stop_timeout)
  /\ StrRaises(Current) # "none"
  /\ checked' = checked + 1
  /\ metric_calls' = metric_calls \cup {Current.InstanceId}
  /\ stops_issued' = stops_issued \cup {Current.InstanceId}
  /\ r_pc' = StrRaises(Current)
  /\ UNCHANGED <<configVars, listVars, pos, warned, stopped, warnings_sent,
                 warnings_refused, warn_attempts, otherVars>>

\* line 271
PrintSummary ==
  /\ r_pc = "loop" /\ pos > Len(instances_vec)
  /\ r_pc' = "done"
  /\ UNCHANGED <<configVars, listVars, loopVars, otherVars>>

Next ==
  \/ RejectTimeouts
  \/ AcceptTimeouts
  \/ DescribeInstances
  \/ SkipPrinting
  \/ PrintInstances
  \/ PrintInstancesRaises
  \/ SkipInstance
  \/ LeaveInstance
  \/ WarnNameRaises
  \/ WarnFails
  \/ WarnPostRaises
  \/ WarnInstance
  \/ WarnRefused
  \/ StopInstance
  \/ StopInstanceRaises
  \/ PrintSummary

Spec == InitReaper /\ [][Next]_vars

\* Every instance of the account, whatever page serves it.
AllInstances == Range(Flatten(ec2_pages))
ClaimInScope(inst) == inst.State = "running" \/ include_stopped
StopSecs == stop_timeout * SECS_PER_HOUR
WarningSecs == warning_timeout * SECS_PER_HOUR

\* The action the claim gives an in-scope instance with known idle hours.
DueStop(inst) == IdleHours(inst) >= StopSecs
DueWarning(inst) == WarningSecs <= IdleHours(inst) /\ IdleHours(inst) < StopSecs
Warned(inst) == inst.InstanceId \in (warnings_sent \cup warnings_refused)
Stopped(inst) == inst.InstanceId \in stops_issued
ExactActions ==
  /\ checked = Cardinality({inst \in AllInstances : ClaimInScope(inst)})
  /\ warned + stopped <= checked
  /\ \A inst \in AllInstances :
       /\ ~ClaimInScope(inst) => ~Warned(inst) /\ ~Stopped(inst)
       /\ ~(Warned(inst) /\ Stopped(inst))
       /\ (ClaimInScope(inst) /\ IdleHours(inst) # NO_DATA) =>
            /\ Stopped(inst) <=> DueStop(inst)
            /\ Warned(inst) <=> DueWarning(inst)

\* The pass is over: the summary line was printed, or an exception other
\* than the two configuration errors ended it.
PassOver == r_pc \in {"done", "key_error", "type_error", "post_error"}

\* C4: with warningTimeout < stopTimeout, one pass gives every in-scope
\* instance with known idle hours exactly the action of its range (stop at
\* or above the stop timeout, warning from the warning timeout up to the
\* stop timeout, nothing below), gives out-of-scope instances nothing, never
\* both warns and stops an instance, and ends with checked equal to the
\* number of in-scope instances and warned + stopped <= checked.
C4_ActionOfRange ==
  (warning_timeout < stop_timeout /\ PassOver) => ExactActions

\* What remains true of C4 on the code: a pass that reaches its summary line
\* (line 271) has given every instance exactly the action of its range, and
\* at no time is an instance acted on outside its range or both warned
\* about and stopped.
C4_CompletedPass ==
  warning_timeout < stop_timeout =>
    /\ r_pc = "done" => ExactActions
    /\ warn_attempts \cap stops_issued = {}
    /\ warned = Cardinality(warnings_sent \cup warnings_refused)
    /\ \A inst \in AllInstances :
         /\ ~ClaimInScope(inst) =>
              inst.InstanceId \notin (warn_attempts \cup stops_issued \cup metric_calls)
         /\ (inst.InstanceId \in warn_attempts /\ IdleHours(inst) # NO_DATA) => DueWarning(inst)
         /\ (Stopped(inst) /\ IdleHours(inst) # NO_DATA) => DueStop(inst)

\* An instance none of whose metrics has a datapoint.
NoMetricData(inst) == \A m \in MetricNames : CloudWatch(inst)[m] = <<>>

\* C5: an instance whose metrics returned no datapoints is neither warned
\* nor stopped, whatever timeouts the validation accepted.
C5_UnknownNeverActed ==
  \A inst \in AllInstances :
    NoMetricData(inst) => inst.InstanceId \notin (warn_attempts \cup stops_issued)

\* C6: a timeout above the lookback window ends the pass in the
\* configuration error with no instance listed, no metric fetched and no
\* action emitted; timeouts of at most the lookback window pass validation.
C6_FailFast ==
  /\ (stop_timeout > REPORTING_LOOKBACK_TIME_HOURS
        \/ warning_timeout > REPORTING_LOOKBACK_TIME_HOURS) =>
       /\ r_pc \in {"validate", "config_error"}
       /\ list_calls = <<>> /\ instances_vec = <<>> /\ metric_calls = {}
       /\ warn_attempts = {} /\ stops_issued = {} /\ checked = 0
       /\ warnings_sent = {} /\ warnings_refused = {}
  /\ (stop_timeout <= REPORTING_LOOKBACK_TIME_HOURS
        /\ warning_timeout <= REPORTING_LOOKBACK_TIME_HOURS) => r_pc # "config_error"

\* C6 witness: the pass was rejected for its warning timeout alone, over an
\* account that has instances to list.
C6_Witness ==
  /\ r_pc = "config_error"
  /\ warning_timeout = REPORTING_LOOKBACK_TIME_HOURS + 1 /\ stop_timeout = 2
  /\ AllInstances # {}

\* C7: when the missing webhook setting stops the pass, nothing has been
\* listed, fetched or counted yet.
C7_WebhookCheckedFirst ==
  r_pc = "notify_error" =>
    /\ list_calls = <<>> /\ metric_calls = {}
    /\ checked = 0 /\ warned = 0 /\ stopped = 0

\* The listing loop of reaper drains the pagination: request k carries the
\* token answered by request k-1, one request per page, every instance
\* collected exactly once.
ReaperListingDrains ==
  /\ \A k \in 1..Len(list_calls) :
       list_calls[k] = IF k = 1 THEN EmptyToken ELSE k
  /\ Len(list_calls) <= Len(ec2_pages)
  /\ r_pc \notin {"validate", "list", "config_error"} =>
       /\ Len(list_calls) = Len(ec2_pages)
       /\ Len(instances_vec) = Len(Flatten(ec2_pages))
       /\ Range(instances_vec) = AllInstances

\* ------------------------------------------------------------------------
\* SpecEbs: one call of ebs_reaper, ebs.py lines 65-123
\* ------------------------------------------------------------------------

\* lines 113, 117, 122: a count or a size strictly above its maximum
Exceeds(n, max) == n > max

\* line 97
RECURSIVE SumSizes(_)
SumSizes(vec) == IF vec = <<>> THEN 0 ELSE Head(vec).Size + SumSizes(Tail(vec))

\* line 98
AvailableVolumes(vec) == SelectSeq(vec, LAMBDA v : v.State = "available")

\* line 99
InUseOver200GB(vec) ==
  SelectSeq(vec, LAMBDA v : v.State = "in-use" /\ v.Size > SIZE_FLOOR_GB)

\* An EBS account: nAvail available volumes of one size followed by nInUse
\* in-use volumes of one size.
VolumeAccount(nAvail, availSize, nInUse, inUseSize) ==
  [k \in 1..(nAvail + nInUse) |->
     [VolumeId |-> k,
      State |-> IF k <= nAvail THEN "available" ELSE "in-use",
      Size |-> IF k <= nAvail THEN availSize ELSE inUseSize]]

\* Counts on both sides of each maximum; sizes on both sides of the 200 GB
\* floor, and such that 25 volumes total 25 (far within MAX_EBS_SIZE), exactly
\* 10,000 (MAX_EBS_SIZE itself) or 12,000.
AvailCounts == {0, MAX_AVAILABLE, MAX_AVAILABLE + 5}
              \cup (MAX_AVAILABLE + 1)..(MAX_AVAILABLE + MaxExtraVolumes)
InUseCounts == {0, MAX_IN_USE_OVER_200GB}
              \cup (MAX_IN_USE_OVER_200GB + 1)..(MAX_IN_USE_OVER_200GB + MaxExtraVolumes)
AvailSizes == {1, MAX_EBS_SIZE \div 25, 480}
InUseSizes == {SIZE_FLOOR_GB, SIZE_FLOOR_GB + 1}

\* The account on one page, or cut in two at any of a few places.
VolumePaginations(items) ==
  {<<items>>} \cup
  {<<SubSeqOrEmpty(items, 1, c), SubSeqOrEmpty(items, c + 1, Len(items))>> :
     c \in {x \in {0, Len(items) \div 2, Len(items)} : MaxVolumePages >= 2}}
  \cup
  {[k \in 1..n |-> IF k = 1 THEN items ELSE <<>>] : n \in 3..MaxVolumePages}

InitEbs ==
  /\ \E a \in AvailCounts, sa \in AvailSizes, u \in InUseCounts, su \in InUseSizes :
       volume_pages \in VolumePaginations(VolumeAccount(a, sa, u, su))
  /\ has_slack \in BOOLEAN
  /\ slack_fails_on \in (IF has_slack THEN 0..3 ELSE {0})
  /\ slack_calls = 0
  /\ e_pc = "list"
  /\ e_done = FALSE
  /\ volumes_vec = <<>> /\ volume_requests = <<>>
  /\ printed = <<>> /\ slack_msgs = <<>>
  /\ MetricAtRest /\ InstAtRest /\ ReaperAtRest

ebsInputs == <<volume_pages, has_slack, slack_fails_on>>
ebsListing == <<e_done, volumes_vec, volume_requests>>

\* lines 84-95: one iteration of the listing loop.  describe_volumes is
\* called with the status filter only: nexttoken is never sent.
DescribeVolumes ==
  /\ e_pc = "list"
  /\ Len(volume_requests) < MaxListCalls
  /\ volume_requests' = Append(volume_requests, NoToken)
  /\ e_done' = (PageNextToken(volume_pages, NoToken) = NoToken)
  /\ volumes_vec' = volumes_vec \o PageItems(volume_pages, NoToken)
  /\ e_pc' = IF e_done' THEN "available" ELSE "list"
  /\ UNCHANGED <<ebsInputs, slack_calls, printed, slack_msgs,
                 metricVars, instVars, reaperVars>>

\* An if of lines 113, 117, 122 whose condition is false: no warning
NoWarning(at, n, max, next) ==
  /\ e_pc = at
  /\ ~Exceeds(n, max)
  /\ e_pc' = next
  /\ UNCHANGED <<ebsInputs, ebsListing, slack_calls, printed, slack_msgs,
                 metricVars, instVars, reaperVars>>

\* lines 107-110, warn(msg) returning: slack_send_func(msg) when there is
\* one, then print(msg)
Warn(at, n, max, next) ==
  /\ e_pc = at
  /\ Exceeds(n, max)
  /\ ~(has_slack /\ slack_calls + 1 = slack_fails_on)
  /\ slack_calls' = IF has_slack THEN slack_calls + 1 ELSE slack_calls
  /\ slack_msgs' = IF has_slack THEN Append(slack_msgs, at) ELSE slack_msgs
  /\ printed' = Append(printed, at)
  /\ e_pc' = next
  /\ UNCHANGED <<ebsInputs, ebsListing, metricVars, instVars, reaperVars>>

\* lines 107-109, warn(msg) with slack_send_func raising at line 109: the
\* message is neither sent nor printed, and ebs_reaper ends there
WarnRaises(at, n, max) ==
  /\ e_pc = at
  /\ Exceeds(n, max)
  /\ has_slack /\ slack_calls + 1 = slack_fails_on
  /\ slack_calls' = slack_calls + 1
  /\ e_pc' = "raised"
  /\ UNCHANGED <<ebsInputs, ebsListing, printed, slack_msgs,
                 metricVars, instVars, reaperVars>>

\* lines 98, 112
n_available == Len(AvailableVolumes(volumes_vec))
\* lines 99, 116
n_inuse_over_200GB == Len(InUseOver200GB(volumes_vec))
\* line 97
total_size == SumSizes(volumes_vec)

\* lines 112-114
AvailableWithin == NoWarning("available", n_available, MAX_AVAILABLE, "in_use_over_200GB")
WarnAvailable == Warn("available", n_available, MAX_AVAILABLE, "in_use_over_200GB")
WarnAvailableRaises == WarnRaises("available", n_available, MAX_AVAILABLE)

\* lines 116-120
InUseWithin ==
  NoWarning("in_use_over_200GB", n_inuse_over_200GB, MAX_IN_USE_OVER_200GB, "total_size")
WarnInUse ==
  Warn("in_use_over_200GB", n_inuse_over_200GB, MAX_IN_USE_OVER_200GB, "total_size")
WarnInUseRaises ==
  WarnRaises("in_use_over_200GB", n_inuse_over_200GB, MAX_IN_USE_OVER_200GB)

\* lines 122-123
TotalWithin == NoWarning("total_size", total_size, MAX_EBS_SIZE, "done")
WarnTotal == Warn("total_size", total_size, MAX_EBS_SIZE, "done")
WarnTotalRaises == WarnRaises("total_size", total_size, MAX_EBS_SIZE)

NextEbs ==
  \/ DescribeVolumes
  \/ AvailableWithin
  \/ WarnAvailable
  \/ WarnAvailableRaises
  \/ InUseWithin
  \/ WarnInUse
  \/ WarnInUseRaises
  \/ TotalWithin
  \/ WarnTotal
  \/ WarnTotalRaises

SpecEbs == InitEbs /\ [][NextEbs]_vars

\* The token describe_volumes answered to request k.
VolumeTokenAnswered(k) == PageNextToken(volume_pages, volume_requests[k])

\* C8: the volume listing loop asks for each next page with the token of the
\* previous answer, makes one request per page, collects no volume twice and,
\* once it has stopped, holds every volume of every page.
C8_ListingDrains ==
  /\ \A k \in 2..Len(volume_requests) : volume_requests[k] = VolumeTokenAnswered(k - 1)
  /\ Len(volume_requests) <= Len(volume_pages)
  /\ \A i, j \in 1..Len(volumes_vec) :
       volumes_vec[i].VolumeId = volumes_vec[j].VolumeId => i = j
  /\ e_pc # "list" => Range(volumes_vec) = Range(Flatten(volume_pages))

\* Counting the listed volumes as sets of positions.
CountWhere(P(_)) == Cardinality({k \in 1..Len(volumes_vec) : P(volumes_vec[k])})
ListedAvailable == CountWhere(LAMBDA v : v.State = "available")
ListedBigInUse == CountWhere(LAMBDA v : v.State = "in-use" /\ v.Size > 200)
RECURSIVE TotalOver(_)
TotalOver(K) ==
  IF K = {} THEN 0
  ELSE LET k == CHOOSE x \in K : TRUE IN volumes_vec[k].Size + TotalOver(K \ {k})
ListedTotal == TotalOver(1..Len(volumes_vec))

Occurrences(seq, x) == Cardinality({k \in 1..Len(seq) : seq[k] = x})

\* The thresholds of ebs_reaper, in the order it evaluates them.
ThresholdOrder == <<"available", "in_use_over_200GB", "total_size">>
Evaluated(k) ==
  \/ e_pc = "done"
  \/ \E j \in 1..3 : e_pc = ThresholdOrder[j] /\ k < j
Owed(w) ==
  IF w = "available" THEN ListedAvailable > 20
  ELSE IF w = "in_use_over_200GB" THEN ListedBigInUse > 10
  ELSE ListedTotal > 10000

\* The call of ebs_reaper is over: it returned, or the notifier's exception
\* ended it.
CallOver == e_pc \in {"done", "raised"}

\* C10: once a call of ebs_reaper is over, each of the three warnings has
\* been emitted, once, exactly when its own quantity is strictly above its
\* maximum (available > 20, in-use over 200 > 10, total size > 10,000),
\* whatever the other two; 25 available volumes totalling 12,000 with none
\* in use have given exactly two; the notifier got the warnings exactly
\* when one was supplied.
C10_IndependentWarnings ==
  CallOver =>
    /\ \A k \in 1..3 :
         Occurrences(printed, ThresholdOrder[k]) = (IF Owed(ThresholdOrder[k]) THEN 1 ELSE 0)
    /\ Len(printed) = Occurrences(printed, "available")
                        + Occurrences(printed, "in_use_over_200GB")
                        + Occurrences(printed, "total_size")
    /\ (ListedAvailable = 25 /\ ListedTotal = 12000 /\ Len(volumes_vec) = 25)
         => printed = <<"available", "total_size">>
    /\ slack_msgs = (IF has_slack THEN printed ELSE <<>>)

\* What remains true of C10 on the code: no warning is ever emitted for a
\* quantity within its maximum or emitted twice, every threshold the call
\* has gone past has its warning exactly when its quantity is above its
\* maximum (so a call that returns has emitted exactly the warnings owed:
\* none for a total of exactly 10,000, two for 25 available volumes
\* totalling 12,000), and the notifier has returned from exactly the
\* printed warnings when one is supplied.
C10_ReturnedCall ==
  /\ \A k \in 1..3 :
       /\ Occurrences(printed, ThresholdOrder[k]) <= 1
       /\ Occurrences(printed, ThresholdOrder[k]) = 1 => Owed(ThresholdOrder[k])
       /\ Evaluated(k) =>
            (Occurrences(printed, ThresholdOrder[k]) = 1 <=> Owed(ThresholdOrder[k]))
  /\ \A i \in 1..Len(printed) : \E k \in 1..3 : printed[i] = ThresholdOrder[k]
  /\ (e_pc = "done" /\ ListedAvailable = 25 /\ ListedTotal = 12000 /\ Len(volumes_vec) = 25)
       => printed = <<"available", "total_size">>
  /\ (e_pc = "done" /\ ListedTotal = 10000) => Occurrences(printed, "total_size") = 0
  /\ slack_msgs = (IF has_slack THEN printed ELSE <<>>)
  /\ slack_calls = Len(slack_msgs) + (IF e_pc = "raised" THEN 1 ELSE 0)

\* A returned call over 25 available volumes totalling 12,000, none in use,
\* with a notifier: two warnings, both sent.
TwoWarningsReached ==
  /\ e_pc = "done" /\ has_slack
  /\ ListedAvailable = 25 /\ ListedTotal = 12000 /\ Len(volumes_vec) = 25
  /\ printed = <<"available", "total_size">>
  /\ slack_msgs = printed

\* A returned call over volumes totalling exactly 10,000.
TotalAtMaximumReached == e_pc = "done" /\ ListedTotal = 10000

\* A notifier that raises ends ebs_reaper at once (line 109): the warning it
\* was called for is not printed and the thresholds after it are not
\* evaluated.
NotifierRaiseCutsShort ==
  e_pc = "raised" =>
    /\ has_slack /\ slack_calls = slack_fails_on
    /\ Len(printed) = slack_calls - 1
    /\ \E k \in 1..3 : Owed(ThresholdOrder[k]) /\ Occurrences(printed, ThresholdOrder[k]) = 0

====
